---------------------------- MODULE Spec2Model ----------------------------
(***************************************************************************)
(* Model of the training driver (model/train.py) and the evaluation driver *)
(* (model/evaluate.py) of the self-supervised depth estimation repository. *)
(*                                                                         *)
(* Numbers: a finite float is an exact rational <<n, d>> (d > 0, lowest    *)
(* terms); a float that may be non-finite is a record [k, v] with k one of *)
(* "fin", "nan", "inf".  Losses are non-negative, so only +inf occurs.     *)
(***************************************************************************)
EXTENDS Integers, Sequences, FiniteSets, TLC

VARIABLES
    program,            \* which script runs: "train" or "evaluate"
    args,               \* parsed command line (train.py 60-97)
    set_to_none,        \* build: optimizer.zero_grad() drops the gradients (TRUE) or fills them with zeros (FALSE)
    disk,               \* checkpoint files on disk
    trained_model_path, \* the file --trained_model_path names: a checkpoint or Missing
    pc,                 \* position in the script
    epoch,              \* train.py 171/178/183
    epoch_iter,         \* next value of range(epoch, n_epochs + 1)
    step,               \* train.py 170/179/289
    flag,               \* train.py 181/273
    batch,              \* enumerate index of the running loop
    depth_consistency_weight, \* train.py 75/193/195
    lr,                 \* learning rate the scheduler wrote into the optimizer
    loss,               \* train.py 264/419
    means,              \* mean_loss, mean_depth_consistency_loss, mean_sparse_flow_loss
    param,              \* the network's weights (one scalar)
    optimizer,          \* Adam state: [exp_avg, t]
    processed,          \* history: batches the running process has consumed
    trace,              \* history: one record per training batch of the first process
    rtrace,             \* history: the same, for the resumed process
    resumed,            \* history: the checkpoint a second process was started from
    keep_history,       \* whether the histories trace and rtrace are kept
    probe               \* input/output of the pure-function specifications; locals of the loop body

trainVars == <<program, args, set_to_none, disk, trained_model_path, pc, epoch, epoch_iter,
               step, flag, batch, depth_consistency_weight, lr, loss, means, param,
               optimizer, processed, trace, rtrace, resumed, keep_history>>

vars == <<trainVars, probe>>

---------------------------------------------------------------------------
(* Exact arithmetic *)

Abs(x) == IF x < 0 THEN -x ELSE x

Sign(x) == IF x > 0 THEN 1 ELSE IF x < 0 THEN -1 ELSE 0

RECURSIVE GCD(_, _)
GCD(a, b) == IF b = 0 THEN a ELSE GCD(b, a % b)

RECURSIVE Pow2(_)
Pow2(n) == IF n = 0 THEN 1 ELSE 2 * Pow2(n - 1)

Rat(n, d) ==
    LET g == GCD(Abs(n), Abs(d))
        s == IF d < 0 THEN -1 ELSE 1
    IN  <<(s * n) \div g, (s * d) \div g>>

RInt(n) == <<n, 1>>

RAdd(a, b) == Rat(a[1] * b[2] + b[1] * a[2], a[2] * b[2])

RSub(a, b) == Rat(a[1] * b[2] - b[1] * a[2], a[2] * b[2])

RMul(a, b) == Rat(a[1] * b[1], a[2] * b[2])

RDiv(a, b) == Rat(a[1] * b[2], a[2] * b[1])

RLeq(a, b) == a[1] * b[2] <= b[1] * a[2]

RLt(a, b) == a[1] * b[2] < b[1] * a[2]

Fin(q) == [k |-> "fin", v |-> q]

NaN == [k |-> "nan", v |-> RInt(0)]

Inf == [k |-> "inf", v |-> RInt(0)]

\* math.isnan / math.isinf on loss.item()
IsNan(x) == x.k = "nan"

IsInf(x) == x.k = "inf"

IsFinite(x) == x.k = "fin"

\* IEEE addition of non-negative floats
XAdd(a, b) ==
    IF IsNan(a) \/ IsNan(b) THEN NaN
    ELSE IF IsInf(a) \/ IsInf(b) THEN Inf
    ELSE Fin(RAdd(a.v, b.v))

\* IEEE product of a finite rational q >= 0 with a non-negative float
XScale(q, a) ==
    IF IsNan(a) THEN NaN
    ELSE IF IsInf(a) THEN (IF q[1] = 0 THEN NaN ELSE Inf)
    ELSE Fin(RMul(q, a.v))

---------------------------------------------------------------------------
(* Bounds of the model and constants of the program *)

\* len(train_loader): training batches per epoch
NumTrain == 2

\* len(validation_loader): validation batches per validation pass
NumVal == 1

\* --number_epoch is at most the first epoch of the process plus MaxEpochs
\* (one more for the process that is run again from its own checkpoints)
MaxEpochs == 1

\* len(test_loader) of evaluate.py
NumTest == 2

\* train.py 192: epochs 0..20 use the warm-up weight
WarmupEpochs == 20

\* train.py 277: clip_grad_norm_(..., 10.0)
MaxGradNorm == 10

\* train.py 193: depth_consistency_weight = 0.1
WarmupWeight == Rat(1, 10)

Missing == [exists |-> FALSE, epoch |-> 0, step |-> 0, model |-> 0]

Checkpoint(e, s, m) == [exists |-> TRUE, epoch |-> e, step |-> s, model |-> m]

\* checkpoints an earlier training process left behind (utils.save_model
\* writes epoch + 1 >= 1 and the step reached)
PriorCheckpoints ==
    { Checkpoint(WarmupEpochs, 3, -3), Checkpoint(WarmupEpochs + 1, 4, -2) }

\* train.py 23-58: the arguments the control flow reads, with the defaults of
\* the parser; rates in units of 1e-6, num_iter = iterations per epoch
ArgsWith(load, n, v, iters) ==
    [ load_trained_model  |-> load,
      number_epoch        |-> n,
      validation_interval |-> v,
      dcl_weight          |-> RInt(5),
      sfl_weight          |-> RInt(20),
      min_lr              |-> 100,
      max_lr              |-> 1000,
      num_iter            |-> iters ]

\* one iteration per training batch of the epoch
Args(load, n, v) == ArgsWith(load, n, v, NumTrain)

Unbound == [bound |-> FALSE, mean_loss |-> NaN, mean_depth_consistency_loss |-> NaN,
            mean_sparse_flow_loss |-> NaN]

---------------------------------------------------------------------------
(* Cyclic learning-rate schedule (scheduler.CyclicLR, triangular policy) *)

\* rate after batch_step(batch_iteration = i), as an exact rational
CyclicLR(base_lr, max_lr, step_size, i) ==
    LET cycle == 1 + (i \div (2 * step_size))
        x     == Rat(Abs(i - (2 * cycle - 1) * step_size), step_size)
        up    == RSub(RInt(1), x)
        scale == IF RLt(up, RInt(0)) THEN RInt(0) ELSE up
    IN  RAdd(RInt(base_lr), RMul(RInt(max_lr - base_lr), scale))

\* the scheduler built with base_lr and max_lr exchanged
get_lr_swapped(a, i) == CyclicLR(a.max_lr, a.min_lr, a.num_iter, i)

\* train.py 155 and 203-204: the scheduler built over [min_lr, max_lr] with
\* half-cycle num_iter, stepped to iteration i
get_lr(a, i) == CyclicLR(a.min_lr, a.max_lr, a.num_iter, i)

---------------------------------------------------------------------------
(* One batch of data, reduced to what the loop reads of it *)

BatchKinds == {"finite", "nan", "inf"}

\* the two directions' depth-consistency and sparse-flow terms of batch b, and
\* the gradient norm backward() leaves on the weights
Data(kind, b) ==
    [ dc_1 |-> IF kind = "nan" THEN NaN ELSE Fin(RInt(b + 1)),
      dc_2 |-> Fin(RInt(1)),
      sf_1 |-> IF kind = "inf" THEN Inf ELSE Fin(RInt(1)),
      sf_2 |-> Fin(RInt(b)),
      grad |-> 12 ]

\* train.py 249-251
sparse_flow_loss(a, d) == XScale(RMul(a.sfl_weight, Rat(1, 2)), XAdd(d.sf_1, d.sf_2))

\* train.py 260-263
depth_consistency_loss(w, d) == XScale(RMul(w, Rat(1, 2)), XAdd(d.dc_1, d.dc_2))

\* train.py 264
total_loss(a, w, d) == XAdd(depth_consistency_loss(w, d), sparse_flow_loss(a, d))

---------------------------------------------------------------------------
(* Depth scaling (layers.DepthScalingLayer) on one sample, its pixels in a  *)
(* row: the scale is the mean of sparse depth / predicted depth over the    *)
(* valid sparse points (with this few points the inlier fraction keeps      *)
(* them all)                                                                *)

RECURSIVE RSum(_)
RSum(q) == IF q = <<>> THEN RInt(0) ELSE RAdd(q[1], RSum(Tail(q)))

\* depth_scaling_layer([predicted depth, sparse depth, sparse depth mask])
DepthScalingLayer(predicted, sparse_depths, sparse_depth_masks) ==
    LET valid == RSum([i \in DOMAIN predicted |-> RInt(sparse_depth_masks[i])])
        ratio == [i \in DOMAIN predicted |->
                    Rat(sparse_depth_masks[i] * sparse_depths[i], predicted[i])]
    IN  IF valid[1] = 0
        THEN [raised |-> "DegenerateScaleError", scaled |-> <<>>]
        ELSE [raised |-> "",
              scaled |-> [i \in DOMAIN predicted |->
                            RMul(RInt(predicted[i]), RDiv(RSum(ratio), valid))]]

\* samples of the loader: the network predicts half the metric depth; the
\* sparse depth mask is any
Samples ==
    { [ predicted_depth_maps_1 |-> <<1, 2>>,
        sparse_depths_1        |-> <<2 * m[1], 4 * m[2]>>,
        sparse_depth_masks_1   |-> m ] : m \in [1..2 -> {0, 1}] }

\* train.py 230-231 (and 385-386, where the prediction is already positive)
depth_scaling(sample) ==
    DepthScalingLayer(sample.predicted_depth_maps_1, sample.sparse_depths_1,
                      sample.sparse_depth_masks_1)

---------------------------------------------------------------------------
(* Optimizer: torch.optim.Adam over one scalar weight.  A gradient is <<>>   *)
(* (None) or <<g>>.  exp_avg is kept as exp_avg * 2^t with the first-moment *)
(* decay taken as 1/2; the update moves the weight by one unit against the  *)
(* sign of the running average (the step size is positive).                 *)

FreshOptimizer == [exp_avg |-> 0, t |-> 0]

\* optimizer.zero_grad()
zero_grad(none) == IF none THEN <<>> ELSE <<0>>

\* torch.nn.utils.clip_grad_norm_(parameters, 10.0)
clip_grad_norm_(g) ==
    IF g = <<>> THEN g
    ELSE IF Abs(g[1]) > MaxGradNorm THEN <<Sign(g[1]) * MaxGradNorm>> ELSE g

\* optimizer.step(): a weight whose gradient is None is left alone
optimizer_step(opt, p, g) ==
    IF g = <<>> THEN [param |-> p, optimizer |-> opt]
    ELSE LET t == opt.t + 1
             m == opt.exp_avg + Pow2(t - 1) * g[1]
         IN  [param |-> p - Sign(m), optimizer |-> [exp_avg |-> m, t |-> t]]

---------------------------------------------------------------------------
(* train.py: the pieces of the loop body *)

\* train.py 266: math.isnan(loss.item()) or math.isinf(loss.item())
non_finite(l) == IsNan(l) \/ IsInf(l)

\* the warm-up ending one epoch early
warmup_weight_short(a, e) == IF e < WarmupEpochs THEN WarmupWeight ELSE a.dcl_weight

\* train.py 192-195
warmup_weight(a, e) == IF e <= WarmupEpochs THEN WarmupWeight ELSE a.dcl_weight

\* the existence test left out
path_exists_always(path) == TRUE

\* train.py 167, evaluate.py 113: Path(trained_model_path).exists()
path_exists(path) == path.exists

\* the scheduler stepped with the index of the batch in its epoch
batch_iteration_in_epoch(s, b) == b

\* train.py 203: the iteration handed to lr_scheduler.batch_step
batch_iteration(s, b) == s

\* train.py 266-278: what the batch does to the weights and the optimizer
\*   non-finite: zero_grad, backward, zero_grad, step
\*   finite:     zero_grad, backward, clip_grad_norm_, step
apply_gradients(l, opt, p, g, none) ==
    IF non_finite(l)
    THEN optimizer_step(opt, p, zero_grad(none))
    ELSE optimizer_step(opt, p, clip_grad_norm_(<<g>>))

\* step += 1 reached by every batch
next_step_always(l, s) == s + 1

\* train.py 271 and 289: `continue` leaves the loop body before step += 1
next_step(l, s) == IF non_finite(l) THEN s ELSE s + 1

\* train.py 273
next_flag(l, f) == IF non_finite(l) THEN f ELSE f + 1

running(m, b, x) == XScale(Rat(1, b + 1), XAdd(XScale(RInt(b), m), x))

\* train.py 279-287 (f is flag after line 273); validation 422-431 with first = (batch == 0)
update_means(m, first, b, l, dcl, sfl) ==
    IF first
    THEN [bound |-> TRUE, mean_loss |-> l, mean_depth_consistency_loss |-> dcl,
          mean_sparse_flow_loss |-> sfl]
    ELSE [bound |-> m.bound,
          mean_loss |-> running(m.mean_loss, b, l),
          mean_depth_consistency_loss |-> running(m.mean_depth_consistency_loss, b, dcl),
          mean_sparse_flow_loss |-> running(m.mean_sparse_flow_loss, b, sfl)]

\* the record a process appends to its history for one batch
Entry(phase, e, b, i, w, kind) ==
    [phase |-> phase, epoch |-> e, batch |-> b, iteration |-> i, weight |-> w, kind |-> kind]

\* the data of (phase, epoch, batch) is what the first process saw there, when
\* it got that far (train.py 185-187 seeds the loaders per epoch)
SameData(phase, e, b, kind) ==
    \A i \in 1..Len(trace) :
        (trace[i].phase = phase /\ trace[i].epoch = e /\ trace[i].batch = b)
            => trace[i].kind = kind

Record(entry) ==
    IF ~keep_history THEN UNCHANGED <<trace, rtrace>>
    ELSE IF resumed.exists
    THEN rtrace' = Append(rtrace, entry) /\ UNCHANGED trace
    ELSE trace' = Append(trace, entry) /\ UNCHANGED rtrace

---------------------------------------------------------------------------
(* train.py: the actions *)

\* train.py 165-181
LoadCheckpoint ==
    /\ program = "train" /\ pc = "load"
    /\ IF args.load_trained_model
       THEN IF path_exists(trained_model_path)
            THEN /\ step' = trained_model_path.step
                 /\ epoch' = trained_model_path.epoch
                 /\ epoch_iter' = trained_model_path.epoch
                 /\ param' = trained_model_path.model
                 /\ flag' = 0
                 /\ pc' = "epoch_loop"
            ELSE /\ pc' = "OSError"
                 /\ UNCHANGED <<step, epoch, epoch_iter, param, flag>>
       ELSE /\ epoch' = 0 /\ epoch_iter' = 0 /\ step' = 0 /\ flag' = 0
            /\ pc' = "epoch_loop"
            /\ UNCHANGED param
    /\ UNCHANGED <<program, args, set_to_none, disk, trained_model_path, batch,
                   depth_consistency_weight, lr, loss, means, optimizer, processed,
                   trace, rtrace, resumed, keep_history, probe>>

\* train.py 183-195 and 467: for epoch in range(epoch, n_epochs + 1)
EpochLoop ==
    /\ program = "train" /\ pc = "epoch_loop"
    /\ IF epoch_iter <= args.number_epoch
       THEN /\ epoch' = epoch_iter
            /\ epoch_iter' = epoch_iter + 1
            /\ depth_consistency_weight' = warmup_weight(args, epoch_iter)
            /\ batch' = 0
            /\ pc' = "train_loop"
       ELSE /\ pc' = "done"
            /\ UNCHANGED <<epoch, epoch_iter, depth_consistency_weight, batch>>
    /\ UNCHANGED <<program, args, set_to_none, disk, trained_model_path, step, flag, lr,
                   loss, means, param, optimizer, processed, trace, rtrace, resumed, keep_history, probe>>

\* train.py 197-345: one iteration of the training loop
TrainBatch(kind) ==
    /\ program = "train" /\ pc = "train_loop" /\ batch < NumTrain
    /\ SameData("train", epoch, batch, kind)
    /\ LET d   == Data(kind, batch)
           i   == batch_iteration(step, batch)
           dcl == depth_consistency_loss(depth_consistency_weight, d)
           sfl == sparse_flow_loss(args, d)
           l   == total_loss(args, depth_consistency_weight, d)
           upd == apply_gradients(l, optimizer, param, d.grad, set_to_none)
           f   == next_flag(l, flag)
       IN  /\ lr' = get_lr(args, i)
           /\ loss' = l
           /\ param' = upd.param
           /\ optimizer' = upd.optimizer
           /\ flag' = f
           /\ means' = IF non_finite(l) THEN means
                       ELSE update_means(means, batch = 0 \/ f = 1, batch, l, dcl, sfl)
           /\ step' = next_step(l, step)
           /\ Record(Entry("train", epoch, batch, i, depth_consistency_weight, kind))
    /\ batch' = batch + 1
    /\ processed' = processed + 1
    /\ UNCHANGED <<program, args, set_to_none, disk, trained_model_path, pc, epoch,
                   epoch_iter, depth_consistency_weight, resumed, keep_history, probe>>

\* train.py 197-231: a training batch with a sample on which
\* depth_scaling_layer raises; nothing catches the exception
TrainScaleFails ==
    /\ program = "train" /\ pc = "train_loop" /\ batch < NumTrain
    /\ SameData("train", epoch, batch, "degenerate")
    /\ \E sample \in Samples : depth_scaling(sample).raised # ""
    /\ lr' = get_lr(args, batch_iteration(step, batch))
    /\ pc' = "DegenerateScaleError"
    /\ processed' = processed + 1
    /\ UNCHANGED <<program, args, set_to_none, disk, trained_model_path, epoch, epoch_iter,
                   step, flag, batch, depth_consistency_weight, loss, means, param,
                   optimizer, trace, rtrace, resumed, keep_history, probe>>

\* train.py 346-353: the training loop is exhausted; validate every
\* validation_interval epochs
ValidationGate ==
    /\ program = "train" /\ pc = "train_loop" /\ batch = NumTrain
    /\ IF epoch % args.validation_interval # 0
       THEN pc' = "epoch_loop" /\ UNCHANGED batch
       ELSE pc' = "val_loop" /\ batch' = 0
    /\ UNCHANGED <<program, args, set_to_none, disk, trained_model_path, epoch, epoch_iter,
                   step, flag, depth_consistency_weight, lr, loss, means, param, optimizer,
                   processed, trace, rtrace, resumed, keep_history, probe>>

\* a validation batch that trains: backward, optimizer step and step += 1
validation_update_trains(opt, p, s, g) ==
    LET upd == optimizer_step(opt, p, <<g>>)
    IN  [param |-> upd.param, optimizer |-> upd.optimizer, step |-> s + 1]

\* train.py 354-458: under torch.no_grad() the validation body calls neither
\* backward() nor the optimizer nor the scheduler and does not touch step
validation_update(opt, p, s, g) == [param |-> p, optimizer |-> opt, step |-> s]

\* train.py 354-458: one iteration of the validation loop; line 456 reads
\* mean_loss, which is unbound when no branch has assigned it yet
ValBatch(kind) ==
    /\ program = "train" /\ pc = "val_loop" /\ batch < NumVal
    /\ SameData("val", epoch, batch, kind)
    /\ LET d   == Data(kind, batch)
           dcl == depth_consistency_loss(depth_consistency_weight, d)
           sfl == sparse_flow_loss(args, d)
           l   == total_loss(args, depth_consistency_weight, d)
           m   == IF IsNan(l) THEN means
                  ELSE update_means(means, batch = 0, batch, l, dcl, sfl)
           upd == validation_update(optimizer, param, step, d.grad)
       IN  /\ loss' = l
           /\ means' = m
           /\ param' = upd.param
           /\ optimizer' = upd.optimizer
           /\ step' = upd.step
           /\ pc' = IF m.bound THEN "val_loop" ELSE "NameError"
           /\ Record(Entry("val", epoch, batch, step, depth_consistency_weight, kind))
    /\ batch' = batch + 1
    /\ processed' = processed + 1
    /\ UNCHANGED <<program, args, set_to_none, disk, trained_model_path, epoch, epoch_iter,
                   flag, depth_consistency_weight, lr, resumed, keep_history, probe>>

\* train.py 355-386: a validation batch with a sample on which
\* depth_scaling_layer raises
ValScaleFails ==
    /\ program = "train" /\ pc = "val_loop" /\ batch < NumVal
    /\ SameData("val", epoch, batch, "degenerate")
    /\ \E sample \in Samples : depth_scaling(sample).raised # ""
    /\ pc' = "DegenerateScaleError"
    /\ processed' = processed + 1
    /\ UNCHANGED <<program, args, set_to_none, disk, trained_model_path, epoch, epoch_iter,
                   step, flag, batch, depth_consistency_weight, lr, loss, means, param,
                   optimizer, trace, rtrace, resumed, keep_history, probe>>

\* utils.save_model(model, optimizer, epoch, step, ...): the file it writes
save_model(m, e, s) == Checkpoint(e, s, m)

\* train.py 460-465
SaveModel ==
    /\ program = "train" /\ pc = "val_loop" /\ batch = NumVal
    /\ IF means.bound
       THEN /\ disk' = disk \cup {save_model(param, epoch + 1, step)}
            /\ pc' = "epoch_loop"
       ELSE /\ pc' = "NameError"
            /\ UNCHANGED disk
    /\ UNCHANGED <<program, args, set_to_none, trained_model_path, epoch, epoch_iter, step,
                   flag, batch, depth_consistency_weight, lr, loss, means, param, optimizer,
                   processed, trace, rtrace, resumed, keep_history, probe>>

\* The operator starts train.py again with --load_trained_model, naming a
\* checkpoint the first process wrote; every variable of the script starts
\* afresh (train.py 149-163 build a new network, optimizer and scheduler).
Resume ==
    /\ program = "train" /\ pc \in {"done", "NameError"}
    /\ keep_history /\ ~resumed.exists
    /\ \E c \in disk :
          /\ trained_model_path' = c
          /\ resumed' = c
    /\ args' = [args EXCEPT !.load_trained_model = TRUE]
    /\ pc' = "load"
    /\ epoch' = 0 /\ epoch_iter' = 0 /\ step' = 0 /\ flag' = 0 /\ batch' = 0
    /\ depth_consistency_weight' = args.dcl_weight
    /\ lr' = RInt(args.max_lr)
    /\ loss' = Fin(RInt(0))
    /\ means' = Unbound
    /\ param' = 0
    /\ optimizer' = FreshOptimizer
    /\ processed' = 0
    /\ UNCHANGED <<program, set_to_none, disk, trace, rtrace, keep_history, probe>>

---------------------------------------------------------------------------
(* evaluate.py: the actions *)

\* evaluate.py 112-122
EvalLoadCheckpoint ==
    /\ program = "evaluate" /\ pc = "load"
    /\ IF path_exists(trained_model_path)
       THEN /\ step' = trained_model_path.step
            /\ epoch' = trained_model_path.epoch
            /\ param' = trained_model_path.model
            /\ batch' = 0
            /\ pc' = "test_loop"
       ELSE /\ pc' = "OSError"
            /\ UNCHANGED <<step, epoch, param, batch>>
    /\ UNCHANGED <<program, args, set_to_none, disk, trained_model_path, epoch_iter, flag,
                   depth_consistency_weight, lr, loss, means, optimizer, processed, trace,
                   rtrace, resumed, keep_history, probe>>

\* evaluate.py 124-145: one test image, or the end of the loop
EvalBatch ==
    /\ program = "evaluate" /\ pc = "test_loop"
    /\ IF batch < NumTest
       THEN batch' = batch + 1 /\ processed' = processed + 1 /\ UNCHANGED pc
       ELSE pc' = "done" /\ UNCHANGED <<batch, processed>>
    /\ UNCHANGED <<program, args, set_to_none, disk, trained_model_path, epoch, epoch_iter,
                   step, flag, depth_consistency_weight, lr, loss, means, param, optimizer,
                   trace, rtrace, resumed, keep_history, probe>>

---------------------------------------------------------------------------
(* The processes *)

\* what the script's variables hold before line 165 runs
Process(prog, a, none, path, hist) ==
    /\ program = prog /\ args = a /\ set_to_none = none /\ trained_model_path = path
    /\ disk = {}
    /\ epoch = 0 /\ epoch_iter = 0 /\ step = 0 /\ flag = 0 /\ batch = 0
    /\ depth_consistency_weight = a.dcl_weight
    /\ lr = RInt(a.max_lr)
    /\ loss = Fin(RInt(0))
    /\ means = Unbound
    /\ param = 0
    /\ optimizer = FreshOptimizer
    /\ processed = 0
    /\ trace = <<>> /\ rtrace = <<>> /\ resumed = Missing /\ keep_history = hist

Fresh(prog, a, none, path, hist) ==
    /\ Process(prog, a, none, path, hist)
    /\ pc = "load"
    /\ probe = <<>>

ValidationIntervals == {1, 2}

InitTrain ==
    \E none \in BOOLEAN, v \in ValidationIntervals :
        \/ \E n \in 0..MaxEpochs : Fresh("train", Args(FALSE, n, v), none, Missing, FALSE)
        \/ Fresh("train", Args(TRUE, MaxEpochs, v), none, Missing, FALSE)
        \/ \E c \in PriorCheckpoints : \E n \in (c.epoch - 1)..(c.epoch + MaxEpochs) :
              Fresh("train", Args(TRUE, n, v), none, c, FALSE)

InitEvaluate ==
    \E c \in PriorCheckpoints \cup {Missing} :
        Fresh("evaluate", Args(FALSE, 0, 1), FALSE, c, FALSE)

Init == InitTrain \/ InitEvaluate

Next ==
    \/ LoadCheckpoint
    \/ EpochLoop
    \/ \E kind \in BatchKinds : TrainBatch(kind)
    \/ TrainScaleFails
    \/ ValidationGate
    \/ \E kind \in BatchKinds : ValBatch(kind)
    \/ ValScaleFails
    \/ SaveModel
    \/ EvalLoadCheckpoint
    \/ EvalBatch

Spec == Init /\ [][Next]_vars

\* A training process run to its end and then started again from one of the
\* checkpoints it wrote, on the same data
InitResume ==
    Fresh("train", Args(FALSE, MaxEpochs + 1, 1), FALSE, Missing, TRUE)

NextResume ==
    \/ LoadCheckpoint
    \/ EpochLoop
    \/ \E kind \in BatchKinds : TrainBatch(kind)
    \/ TrainScaleFails
    \/ ValidationGate
    \/ \E kind \in BatchKinds : ValBatch(kind)
    \/ ValScaleFails
    \/ SaveModel
    \/ Resume

SpecResume == InitResume /\ [][NextResume]_vars

---------------------------------------------------------------------------
(* Claims about the training and evaluation processes *)

\* a step of the training loop body
TrainStep == program = "train" /\ pc = "train_loop" /\ batch' = batch + 1

\* the state right after a training batch of the running epoch
AfterTrainBatch == program = "train" /\ pc = "train_loop" /\ batch > 0

\* C1: a training batch whose total loss is NaN or Inf leaves the weights as
\* they were before the batch.
C1_NonFiniteBatchKeepsWeights ==
    [][(TrainStep /\ non_finite(loss')) => param' = param]_vars

C3_NoBatchOutcomeAborts == pc # "NameError"

CheckpointRequired == program = "evaluate" \/ args.load_trained_model

\* C4: when a checkpoint is required and the file is missing, the process is
\* stopped by OSError with no batch processed, no weight changed and nothing
\* written.
C4_MissingCheckpointIsFatal ==
    (CheckpointRequired /\ ~trained_model_path.exists /\ pc # "load")
        => /\ pc = "OSError"
           /\ processed = 0
           /\ param = 0 /\ optimizer = FreshOptimizer
           /\ disk = {}

C4_Witness == pc = "OSError" /\ program = "train" /\ args.load_trained_model

TrainEntries(t) == SelectSeq(t, LAMBDA r : r.phase = "train")

FromEpoch(t, e) == SelectSeq(t, LAMBDA r : r.epoch >= e)

\* C5: a process resumed from the checkpoint written after epoch e runs, for
\* every remaining training batch of the uninterrupted process, the same
\* (epoch, iteration, weight), starting at epoch e + 1.
C5_ResumeRepeatsTheRest ==
    (resumed.exists /\ pc \in {"done", "NameError"})
        => TrainEntries(rtrace) = TrainEntries(FromEpoch(trace, resumed.epoch))

\* C7: every training batch gets the rate of the schedule at the running step,
\* and the step is carried from one epoch to the next without a reset.
C7_RateFollowsCumulativeStep ==
    [][/\ TrainStep => lr' = CyclicLR(args.min_lr, args.max_lr, args.num_iter, step)
       /\ (pc = "epoch_loop" /\ pc' = "train_loop") => (step' = step /\ batch' = 0)]_vars

C7_Witness ==
    AfterTrainBatch /\ epoch = 1 /\ batch = 1 /\ step = NumTrain + 1
        /\ lr = CyclicLR(args.min_lr, args.max_lr, args.num_iter, NumTrain)

InBatchLoop == program = "train" /\ pc \in {"train_loop", "val_loop"}

\* C8: the batches of epoch e are weighted 0.1 when e <= 20 and --dcl_weight
\* when e > 20, and once batches are weighted --dcl_weight the weight stays.
C8_WarmupThenFullStrength ==
    /\ [](InBatchLoop => depth_consistency_weight =
            (IF epoch <= WarmupEpochs THEN WarmupWeight ELSE args.dcl_weight))
    /\ [][(processed > 0 /\ depth_consistency_weight = args.dcl_weight)
            => depth_consistency_weight' = args.dcl_weight]_vars

C8_Witness ==
    /\ AfterTrainBatch /\ args.load_trained_model
    /\ epoch = WarmupEpochs + 2
    /\ depth_consistency_weight = args.dcl_weight

\* C13: a batch with a sample of zero valid sparse-depth points does not
\* stop the process: the sample is left out of the batch loss, which stays
\* finite, and the rest of the batch still reaches the optimizer.
C13_DegenerateSampleIsExcluded ==
    [][(program = "train" /\ pc \in {"train_loop", "val_loop"})
          => /\ pc' # "DegenerateScaleError"
             /\ TrainStep => (~non_finite(loss') => optimizer'.t = optimizer.t + 1)]_vars

\* C15: a fresh run started with --number_epoch N has run exactly N training
\* epochs when it terminates (a fresh run starts at epoch 0, so epoch_iter is
\* the number of epochs the loop has started).
C15_NumberEpochIsTheTotal ==
    (program = "train" /\ ~args.load_trained_model /\ pc = "done")
        => epoch_iter = args.number_epoch

\* the training batches of the epoch are exhausted (train.py 346-349)
AtValidationGate == program = "train" /\ pc = "train_loop" /\ batch = NumTrain

\* C17: after the training batches of epoch e the validation pass is entered
\* if and only if e % validation_interval = 0; a validation pass ends in the
\* save of a checkpoint holding epoch e + 1 and the step reached; and the
\* disk changes in no other way.
C17_ValidateThenSave ==
    [][/\ AtValidationGate =>
             ((pc' = "val_loop") <=> (epoch % args.validation_interval = 0))
       /\ (program = "train" /\ pc = "val_loop" /\ pc' # "val_loop") =>
             /\ pc' = "epoch_loop"
             /\ disk' = disk \cup {Checkpoint(epoch + 1, step, param)}
       /\ disk' # disk =>
             /\ pc = "val_loop" /\ batch = NumVal
             /\ disk' = disk \cup {Checkpoint(epoch + 1, step, param)}]_vars

\* the history of the running process
History == IF resumed.exists THEN rtrace ELSE trace

\* the training batches of epoch e with a finite loss, in the history
FiniteBatches(e) ==
    SelectSeq(History, LAMBDA r : r.phase = "train" /\ r.epoch = e /\ r.kind = "finite")

\* the arithmetic mean of term(r) over the records r of history t
MeanOver(t, term(_)) ==
    Fin(RDiv(RSum([i \in 1..Len(t) |-> term(t[i]).v]), RInt(Len(t))))

\* C18: after a training batch with a finite loss the three running means are
\* the arithmetic means of the losses of the finite-loss batches of the epoch
\* so far, whichever batches were skipped before.
C18_RunningMeanIsTheMean ==
    (keep_history /\ AfterTrainBatch /\ ~non_finite(loss)) =>
        LET t == FiniteBatches(epoch)
            L(r)   == total_loss(args, r.weight, Data(r.kind, r.batch))
            DCL(r) == depth_consistency_loss(r.weight, Data(r.kind, r.batch))
            SFL(r) == sparse_flow_loss(args, Data(r.kind, r.batch))
        IN  /\ means.mean_loss = MeanOver(t, L)
            /\ means.mean_depth_consistency_loss = MeanOver(t, DCL)
            /\ means.mean_sparse_flow_loss = MeanOver(t, SFL)

\* C19: no step taken during validation changes step, the learning rate, the
\* depth-consistency weight, the weights or the optimizer state.
C19_ValidationKeepsTrainingState ==
    [][(program = "train" /\ pc = "val_loop")
          => /\ step' = step
             /\ lr' = lr
             /\ depth_consistency_weight' = depth_consistency_weight
             /\ param' = param
             /\ optimizer' = optimizer]_vars

\* a validation pass run to its end after batches that trained the weights
C19_Witness ==
    /\ program = "train" /\ pc = "val_loop" /\ batch = NumVal
    /\ step > 0 /\ optimizer.t > 0 /\ means.bound

---------------------------------------------------------------------------
(* The learning-rate schedule on its own: the scheduler of train.py 155 is  *)
(* stepped to one iteration drawn from 0..MaxIteration.                     *)

\* largest iteration handed to the scheduler
MaxIteration == 2001

\* half-cycles tried: the default of --num_iter (train.py 39) and short ones
HalfCycles == {1, 3, 1000}

InitSched ==
    \E S \in HalfCycles, i \in 0..MaxIteration :
        /\ Process("train", ArgsWith(FALSE, 0, 1, S), FALSE, Missing, FALSE)
        /\ pc = "sched"
        /\ probe = [batch_iteration |-> i, stepped |-> FALSE]

\* train.py 203: lr_scheduler.batch_step(batch_iteration = i)
BatchStep ==
    /\ pc = "sched" /\ ~probe.stepped
    /\ lr' = get_lr(args, probe.batch_iteration)
    /\ probe' = [probe EXCEPT !.stepped = TRUE]
    /\ UNCHANGED <<program, args, set_to_none, disk, trained_model_path, pc, epoch,
                   epoch_iter, step, flag, batch, depth_consistency_weight, loss, means,
                   param, optimizer, processed, trace, rtrace, resumed, keep_history>>

NextSched == BatchStep

SpecSched == InitSched /\ [][NextSched]_vars

\* the triangle wave of half-cycle S at iteration i, in units of 1/S
Triangle(S, i) == LET j == i % (2 * S) IN IF j <= S THEN j ELSE 2 * S - j

\* C6: the rate is min_lr + (max_lr - min_lr) * Triangle / S: linear up over
\* S iterations, linear down over the next S, period 2S, inside
\* [min_lr, max_lr]; with the defaults it is 1e-4, 1e-3, 1e-4 at iterations
\* 0, 1000, 2000.
C6_TriangularRate ==
    (pc = "sched" /\ probe.stepped) =>
        LET S == args.num_iter
            i == probe.batch_iteration
        IN  /\ lr = RAdd(RInt(args.min_lr),
                         RMul(RInt(args.max_lr - args.min_lr), Rat(Triangle(S, i), S)))
            /\ RLeq(RInt(args.min_lr), lr) /\ RLeq(lr, RInt(args.max_lr))
            /\ (i % (2 * S) = 0) => lr = RInt(args.min_lr)
            /\ (i % (2 * S) = S) => lr = RInt(args.max_lr)
            /\ (S = 1000 /\ i \in {0, 2000}) => lr = RInt(100)
            /\ (S = 1000 /\ i = 1000) => lr = RInt(1000)

C6_Witness ==
    /\ pc = "sched" /\ probe.stepped
    /\ args.num_iter = 1000 /\ probe.batch_iteration = 2000
    /\ lr = RInt(100)

---------------------------------------------------------------------------
(* Depth warping (layers.DepthWarpingLayer) on an image of one row: a pixel *)
(* is its column u, a 3D point is [x, z], a pose is a rotation about the    *)
(* optical axis by 0 or pi (R = 1 or -1 on x) and a translation [x, z].     *)

\* columns of the image
Width == 3

Pixels == 0..(Width - 1)

DepthValues == {1, 2}

Masks == [Pixels -> {0, 1}]

Intrinsics == [fx |-> 2, cx |-> 1]

\* point = depth * K^-1 * [u, 1]
unproject(u, depth, K) == [x |-> Rat((u - K.cx) * depth, K.fx), z |-> RInt(depth)]

\* point' = R * point + t
transform(pt, R, t) == [x |-> RAdd(RMul(RInt(R), pt.x), RInt(t.x)), z |-> RAdd(pt.z, RInt(t.z))]

\* perspective division; a point with z <= 0 has no finite pixel
project(pt, K) ==
    IF pt.z[1] <= 0
    THEN [finite |-> FALSE, u |-> RInt(0), depth |-> pt.z]
    ELSE [finite |-> TRUE,
          u      |-> RAdd(RDiv(RMul(RInt(K.fx), pt.x), pt.z), RInt(K.cx)),
          depth  |-> pt.z]

\* where pixel u of the source lands in the target
Warped(u, depth, t, R, K) == project(transform(unproject(u, depth[u], K), R, t), K)

\* strictly inside the image
in_bounds(q) == q.finite /\ RLt(RInt(0), q.u) /\ RLt(q.u, RInt(Width - 1))

Floor(q) == q[1] \div q[2]

Clamp(i) == IF i < 0 THEN 0 ELSE IF i > Width - 1 THEN Width - 1 ELSE i

\* the nearest pixel, kept inside the image
rounded(q) == IF q.finite THEN Clamp(Floor(RAdd(q.u, Rat(1, 2)))) ELSE 0

\* bilinear resampling of a depth map at a fractional column
bilinear(depth, q) ==
    IF ~q.finite THEN RInt(0)
    ELSE LET lo   == Floor(q.u)
             frac == RSub(q.u, RInt(lo))
         IN  RAdd(RMul(RSub(RInt(1), frac), RInt(depth[Clamp(lo)])),
                  RMul(frac, RInt(depth[Clamp(lo + 1)])))

\* depth_warping_layer([source depth, target depth, boundaries, t, R, K]): the
\* depth each source pixel has in the target frame, the target's own depth
\* resampled where it lands, and the intersection mask
DepthWarpingLayer(source, target, boundaries, t, R, K) ==
    [ warped   |-> [u \in Pixels |-> Warped(u, source, t, R, K).depth],
      sampled  |-> [u \in Pixels |-> bilinear(target, Warped(u, source, t, R, K))],
      mask     |-> [u \in Pixels |->
                      LET q == Warped(u, source, t, R, K)
                      IN  (IF in_bounds(q) THEN 1 ELSE 0) * boundaries[u]
                              * boundaries[rounded(q)]] ]

\* the call with a mask of ones in place of boundaries
warp_2_to_1_unmasked(in) ==
    DepthWarpingLayer(in.scaled_depth_maps_1, in.scaled_depth_maps_2,
                      [u \in Pixels |-> 1], in.translations_1_wrt_2,
                      in.rotations_1_wrt_2, in.intrinsics)

\* train.py 254-256
warp_2_to_1(in) ==
    DepthWarpingLayer(in.scaled_depth_maps_1, in.scaled_depth_maps_2,
                      in.boundaries, in.translations_1_wrt_2,
                      in.rotations_1_wrt_2, in.intrinsics)

\* train.py 257-259
warp_1_to_2(in) ==
    DepthWarpingLayer(in.scaled_depth_maps_2, in.scaled_depth_maps_1,
                      in.boundaries, in.translations_2_wrt_1,
                      in.rotations_2_wrt_1, in.intrinsics)

Rotations == {1, -1}

Translations == [x : {-1, 0, 1}, z : {0, 1}]

\* the loader's frame pair: the pose of 2 w.r.t. 1 is the inverse of 1 w.r.t. 2
FramePairs ==
    { [ scaled_depth_maps_1  |-> d1,
        scaled_depth_maps_2  |-> d2,
        boundaries           |-> b,
        rotations_1_wrt_2    |-> R,
        translations_1_wrt_2 |-> t,
        rotations_2_wrt_1    |-> R,
        translations_2_wrt_1 |-> [x |-> -(R * t.x), z |-> -t.z],
        intrinsics           |-> Intrinsics ] :
      d1 \in [Pixels -> DepthValues], d2 \in [Pixels -> DepthValues],
      b \in Masks, R \in Rotations, t \in Translations }

NoWarp == [warped |-> <<>>, sampled |-> <<>>, mask |-> <<>>]

InitWarp ==
    /\ Process("train", Args(FALSE, 0, 1), FALSE, Missing, FALSE)
    /\ pc = "warp"
    /\ \E in \in FramePairs :
          probe = [in |-> in, done |-> FALSE, out_1 |-> NoWarp, out_2 |-> NoWarp]

\* train.py 254-259: both warps of one frame pair
WarpBoth ==
    /\ pc = "warp" /\ ~probe.done
    /\ probe' = [probe EXCEPT !.done = TRUE,
                              !.out_1 = warp_2_to_1(probe.in),
                              !.out_2 = warp_1_to_2(probe.in)]
    /\ UNCHANGED trainVars

NextWarp == WarpBoth

SpecWarp == InitWarp /\ [][NextWarp]_vars

\* pixel v is a pixel nearest to the finite coordinate q (either neighbour
\* at a tie)
Nearest(q, v) ==
    q.finite /\ RLeq(RSub(q.u, Rat(1, 2)), RInt(v)) /\ RLeq(RInt(v), RAdd(q.u, Rat(1, 2)))

\* mask m, got by warping depth with (t, R), marks only pixels inside the
\* boundary that land strictly inside the image on a pixel inside the boundary
SubsetOfBoundaries(m, depth, t, R, in) ==
    \A u \in Pixels :
        /\ m[u] \in {0, 1}
        /\ m[u] = 1 =>
              LET q == Warped(u, depth, t, R, in.intrinsics)
              IN  /\ in.boundaries[u] = 1
                  /\ q.finite /\ RLt(RInt(0), q.u) /\ RLt(q.u, RInt(Width - 1))
                  /\ \E v \in Pixels : Nearest(q, v) /\ in.boundaries[v] = 1

\* C9: in either direction the intersection mask is 1 only where the source
\* boundary is 1 at the pixel, the projected coordinate is strictly inside the
\* image and the target boundary is 1 at the rounded destination.
C9_IntersectionInsideBoundaries ==
    (pc = "warp" /\ probe.done) =>
        /\ SubsetOfBoundaries(probe.out_1.mask, probe.in.scaled_depth_maps_1,
                              probe.in.translations_1_wrt_2, probe.in.rotations_1_wrt_2,
                              probe.in)
        /\ SubsetOfBoundaries(probe.out_2.mask, probe.in.scaled_depth_maps_2,
                              probe.in.translations_2_wrt_1, probe.in.rotations_2_wrt_1,
                              probe.in)

\* a pair where one pixel is kept, one is outside the boundary and one inside
\* the boundary is dropped by the warp
C9_Witness ==
    /\ pc = "warp" /\ probe.done
    /\ \E u, v, w \in Pixels :
          /\ probe.out_1.mask[u] = 1
          /\ probe.in.boundaries[v] = 0
          /\ probe.in.boundaries[w] = 1 /\ probe.out_1.mask[w] = 0
    /\ \E u \in Pixels : probe.out_2.mask[u] = 1

---------------------------------------------------------------------------
(* The masked losses (losses.SparseMaskedL1Loss, NormalizedDistanceLoss) on *)
(* one sample of LossPixels pixels, and what train.py 242-264 makes of them *)

\* pixels of the sample
LossPixels == 2

LPixels == 0..(LossPixels - 1)

LMasks == [LPixels -> {0, 1}]

\* --zero_division_epsilon (train.py 43)
Epsilon == Rat(1, 100000000)

RECURSIVE SumOver(_, _)
\* the sum of f[0..n-1]
SumOver(f, n) == IF n = 0 THEN RInt(0) ELSE RAdd(SumOver(f, n - 1), f[n - 1])

RAbs(q) == <<Abs(q[1]), q[2]>>

\* a float32 count plus epsilon: 1e-8 is below half an ulp of any count >= 1
plus_epsilon(count) == IF count[1] = 0 THEN Epsilon ELSE count

\* IEEE quotient of non-negative floats
XDiv(num, den) ==
    IF den[1] = 0 THEN (IF num[1] = 0 THEN NaN ELSE Inf) ELSE Fin(RDiv(num, den))

\* a map times a mask, pixel by pixel (train.py 242-247)
Times(f, m) == [u \in LPixels |-> RMul(f[u], RInt(m[u]))]

MaskTimes(m, b) == [u \in LPixels |-> m[u] * b[u]]

Count(m) == SumOver([u \in LPixels |-> RInt(m[u])], LossPixels)

\* sparse_flow_loss_function([sparse flows, flows from depth, masks]): the mean
\* absolute difference over the masked pixels
SparseMaskedL1Loss(flows, flows_from_depth, masks) ==
    XDiv(SumOver([u \in LPixels |->
                    RMul(RInt(masks[u]), RAbs(RSub(flows[u], flows_from_depth[u])))],
                 LossPixels),
         plus_epsilon(Count(masks)))

\* depth_consistency_loss_function([depths, warped depths, intersect masks, K]):
\* the difference of the two depths over their sum, averaged over the mask
NormalizedDistanceLoss(depths, warped, masks) ==
    XDiv(SumOver([u \in LPixels |->
                    RMul(RInt(masks[u]),
                         RDiv(RAbs(RSub(depths[u], warped[u])), RAdd(depths[u], warped[u])))],
                 LossPixels),
         plus_epsilon(Count(masks)))

\* the two sparse-flow terms with no flow or mask multiplied by boundaries
sparse_flow_terms_unmasked(in) ==
    [ sf_1 |-> SparseMaskedL1Loss(in.sparse_flows_1, in.flows_from_depth_1,
                                  in.sparse_flow_masks_1),
      sf_2 |-> SparseMaskedL1Loss(in.sparse_flows_2, in.flows_from_depth_2,
                                  in.sparse_flow_masks_2) ]

\* train.py 242-251: masks and flows are multiplied by boundaries first
sparse_flow_terms(in) ==
    [ sf_1 |-> SparseMaskedL1Loss(Times(in.sparse_flows_1, in.boundaries),
                                  Times(in.flows_from_depth_1, in.boundaries),
                                  MaskTimes(in.sparse_flow_masks_1, in.boundaries)),
      sf_2 |-> SparseMaskedL1Loss(Times(in.sparse_flows_2, in.boundaries),
                                  Times(in.flows_from_depth_2, in.boundaries),
                                  MaskTimes(in.sparse_flow_masks_2, in.boundaries)) ]

\* each view's depth compared with the depth warped out of it
depth_consistency_terms_crossed(in) ==
    [ dc_1 |-> NormalizedDistanceLoss(in.scaled_depth_maps_1, in.warped_depth_maps_1_to_2,
                                      in.intersect_masks_1),
      dc_2 |-> NormalizedDistanceLoss(in.scaled_depth_maps_2, in.warped_depth_maps_2_to_1,
                                      in.intersect_masks_2) ]

\* train.py 260-263
depth_consistency_terms(in) ==
    [ dc_1 |-> NormalizedDistanceLoss(in.scaled_depth_maps_1, in.warped_depth_maps_2_to_1,
                                      in.intersect_masks_1),
      dc_2 |-> NormalizedDistanceLoss(in.scaled_depth_maps_2, in.warped_depth_maps_1_to_2,
                                      in.intersect_masks_2) ]

\* train.py 242-264: the losses of one frame pair
pair_losses(a, w, in) ==
    LET sf == sparse_flow_terms(in)
        dc == depth_consistency_terms(in)
        d  == [dc_1 |-> dc.dc_1, dc_2 |-> dc.dc_2, sf_1 |-> sf.sf_1, sf_2 |-> sf.sf_2]
    IN  [ sf_1 |-> sf.sf_1, sf_2 |-> sf.sf_2, dc_1 |-> dc.dc_1, dc_2 |-> dc.dc_2,
          sparse_flow_loss       |-> sparse_flow_loss(a, d),
          depth_consistency_loss |-> depth_consistency_loss(w, d),
          loss                   |-> total_loss(a, w, d) ]

\* sparse flow u + 1 at pixel u, and a depth map 1 + u
Ramp == [u \in LPixels |-> RInt(u + 1)]

Shifted(f, by) == [u \in LPixels |-> RAdd(f[u], RInt(by))]

\* frame pairs: every boundary and sparse-flow mask, every intersection mask
\* the warping layer can return inside that boundary; the flow from depth and
\* the warped depth agree with the sparse flow and the depth, or are off by one
Inside(b) == {i \in LMasks : MaskTimes(i, b) = i}

\* the warped depth that agrees with depth f everywhere (dd = 0), is off by
\* one everywhere (dd = 1), or is off by one outside mask i only (dd = 2)
Apart(f, dd, i) ==
    [u \in LPixels |->
        RAdd(f[u], RInt(IF dd = 0 THEN 0 ELSE IF dd = 1 THEN 1 ELSE 1 - i[u]))]

FramePair(b, m1, m2, i1, i2, df, dd) ==
    [ boundaries               |-> b,
      sparse_flow_masks_1      |-> m1,
      sparse_flow_masks_2      |-> m2,
      sparse_flows_1           |-> Ramp,
      sparse_flows_2           |-> Shifted(Ramp, 1),
      flows_from_depth_1       |-> Shifted(Ramp, df),
      flows_from_depth_2       |-> Shifted(Ramp, 1 - df),
      intersect_masks_1        |-> i1,
      intersect_masks_2        |-> i2,
      scaled_depth_maps_1      |-> Ramp,
      scaled_depth_maps_2      |-> Shifted(Ramp, 1),
      warped_depth_maps_2_to_1 |-> Apart(Ramp, dd, i1),
      warped_depth_maps_1_to_2 |-> Apart(Shifted(Ramp, 1), dd, i2) ]

\* <<df, dd>>: how far the flow from depth is from the sparse flow, and how
\* the warped depth differs from the depth
Agreements == { <<0, 0>>, <<1, 1>>, <<0, 2>>, <<1, 0>> }

InitLoss ==
    /\ \E e \in {WarmupEpochs, WarmupEpochs + 1} :
          /\ Process("train", Args(FALSE, e, 1), FALSE, Missing, FALSE)
    /\ pc = "loss"
    /\ \E b \in LMasks, m1 \in LMasks, m2 \in LMasks :
          \E i1 \in Inside(b), i2 \in Inside(b), k \in Agreements :
             probe = [in |-> FramePair(b, m1, m2, i1, i2, k[1], k[2]), done |-> FALSE]

\* train.py 242-264 on one frame pair, in the epoch --number_epoch names
PairLoss ==
    /\ pc = "loss" /\ ~probe.done
    /\ LET w   == warmup_weight(args, args.number_epoch)
           out == pair_losses(args, w, probe.in)
       IN  /\ depth_consistency_weight' = w
           /\ loss' = out.loss
           /\ probe' = [in |-> probe.in, done |-> TRUE, out |-> out]
    /\ UNCHANGED <<program, args, set_to_none, disk, trained_model_path, pc, epoch,
                   epoch_iter, step, flag, batch, lr, means, param, optimizer, processed,
                   trace, rtrace, resumed, keep_history>>

NextLoss == PairLoss

SpecLoss == InitLoss /\ [][NextLoss]_vars

Empty(m) == \A u \in LPixels : m[u] = 0

Zero == Fin(RInt(0))

\* C10: a masked loss over zero valid pixels is exactly 0: the sparse flow
\* loss when sparse flow mask x boundary is all zero, the depth-consistency
\* loss when the intersection mask is empty; a frame pair with no valid pixel
\* at all has total loss 0, which is finite.
C10_EmptyMaskGivesZero ==
    (pc = "loss" /\ probe.done) =>
        LET in == probe.in
            e1 == Empty(MaskTimes(in.sparse_flow_masks_1, in.boundaries))
            e2 == Empty(MaskTimes(in.sparse_flow_masks_2, in.boundaries))
        IN  /\ e1 => probe.out.sf_1 = Zero
            /\ e2 => probe.out.sf_2 = Zero
            /\ Empty(in.intersect_masks_1) => probe.out.dc_1 = Zero
            /\ Empty(in.intersect_masks_2) => probe.out.dc_2 = Zero
            /\ (e1 /\ e2) => probe.out.sparse_flow_loss = Zero
            /\ (Empty(in.intersect_masks_1) /\ Empty(in.intersect_masks_2))
                  => probe.out.depth_consistency_loss = Zero
            /\ (e1 /\ e2 /\ Empty(in.intersect_masks_1) /\ Empty(in.intersect_masks_2))
                  => (loss = Zero /\ ~non_finite(loss))

\* no valid pixel although sparse flow is marked outside the boundary and the
\* flows disagree there
C10_Witness ==
    /\ pc = "loss" /\ probe.done
    /\ Empty(MaskTimes(probe.in.sparse_flow_masks_1, probe.in.boundaries))
    /\ Empty(MaskTimes(probe.in.sparse_flow_masks_2, probe.in.boundaries))
    /\ ~Empty(probe.in.sparse_flow_masks_1)
    /\ probe.in.flows_from_depth_1 # probe.in.sparse_flows_1
    /\ Empty(probe.in.intersect_masks_1) /\ Empty(probe.in.intersect_masks_2)
    /\ loss = Zero

\* the two depths are equal at every pixel of the mask
Agree(depths, warped, masks) == \A u \in LPixels : masks[u] = 1 => depths[u] = warped[u]

\* C14: the depth-consistency term of a view is exactly 0 when the view's own
\* scaled depth equals the depth warped in from the paired view at every pixel
\* of the intersection mask, and the depth-consistency loss is 0 when that is
\* so in both directions.
C14_AgreementGivesZero ==
    (pc = "loss" /\ probe.done) =>
        LET in == probe.in
            a1 == Agree(in.scaled_depth_maps_1, in.warped_depth_maps_2_to_1,
                        in.intersect_masks_1)
            a2 == Agree(in.scaled_depth_maps_2, in.warped_depth_maps_1_to_2,
                        in.intersect_masks_2)
        IN  /\ a1 => probe.out.dc_1 = Zero
            /\ a2 => probe.out.dc_2 = Zero
            /\ (a1 /\ a2) => probe.out.depth_consistency_loss = Zero

\* the depths agree on a non-empty intersection mask and differ off it
C14_Witness ==
    /\ pc = "loss" /\ probe.done
    /\ Agree(probe.in.scaled_depth_maps_1, probe.in.warped_depth_maps_2_to_1,
             probe.in.intersect_masks_1)
    /\ Agree(probe.in.scaled_depth_maps_2, probe.in.warped_depth_maps_1_to_2,
             probe.in.intersect_masks_2)
    /\ ~Empty(probe.in.intersect_masks_1)
    /\ probe.in.scaled_depth_maps_1 # probe.in.warped_depth_maps_2_to_1
    /\ probe.out.depth_consistency_loss = Zero

---------------------------------------------------------------------------
(* Flow from depth (layers.FlowfromDepthLayer).  A pixel is <<u, v>>; the   *)
(* rotations are those about the optical axis by 0 or pi, so the two image  *)
(* axes do not mix and each is projected by the primitives above with its   *)
(* own focal length, principal point and translation component.             *)

\* side of the small square images
FlowSize == 2

Square(n) == (0..(n - 1)) \X (0..(n - 1))

\* one axis of project(transform(unproject(p, depth, K), R, t), K) - p
FlowAlong(c, depth, tc, tz, R, f, cc) ==
    LET q == project(transform(unproject(c, depth, [fx |-> f, cx |-> cc]), R,
                               [x |-> tc, z |-> tz]),
                     [fx |-> f, cx |-> cc])
    IN  IF q.finite THEN Fin(RSub(q.u, RInt(c))) ELSE NaN

\* flow_from_depth_layer([depth, boundaries, t, R, K]): the dense flow; the
\* layer does not null the pixels outside the boundary
FlowfromDepthLayer(depth, boundaries, t, R, K) ==
    [ p \in DOMAIN depth |->
        [ u |-> FlowAlong(p[1], depth[p], t.x, t.z, R, K.fx, K.cx),
          v |-> FlowAlong(p[2], depth[p], t.y, t.z, R, K.fy, K.cy) ] ]

\* flows_from_depth * boundaries (train.py 246-247)
FlowTimes(flow, boundaries) ==
    [ p \in DOMAIN flow |->
        [ u |-> XScale(RInt(boundaries[p]), flow[p].u),
          v |-> XScale(RInt(boundaries[p]), flow[p].v) ] ]

\* the call handed the loader's sparse depth in place of the scaled depth
flows_from_depth_1_of_sparse(in) ==
    FlowTimes(FlowfromDepthLayer(in.sparse_depths_1, in.boundaries,
                                 in.translations_1_wrt_2, in.rotations_1_wrt_2,
                                 in.intrinsics),
              in.boundaries)

\* train.py 236-238 and 246
flows_from_depth_1(in) ==
    FlowTimes(FlowfromDepthLayer(in.scaled_depth_maps_1, in.boundaries,
                                 in.translations_1_wrt_2, in.rotations_1_wrt_2,
                                 in.intrinsics),
              in.boundaries)

\* train.py 239-241 and 247
flows_from_depth_2(in) ==
    FlowTimes(FlowfromDepthLayer(in.scaled_depth_maps_2, in.boundaries,
                                 in.translations_2_wrt_1, in.rotations_2_wrt_1,
                                 in.intrinsics),
              in.boundaries)

\* the loader's frame pair on image pixels px: the pose of 2 w.r.t. 1 is the
\* inverse of 1 w.r.t. 2; one pixel carries a sparse depth
FlowPair(px, d1, d2, b, R, t, K) ==
    [ scaled_depth_maps_1  |-> d1,
      scaled_depth_maps_2  |-> d2,
      sparse_depths_1      |-> [p \in px |-> IF p = <<0, 0>> THEN d1[p] ELSE 0],
      boundaries           |-> b,
      rotations_1_wrt_2    |-> R,
      translations_1_wrt_2 |-> t,
      rotations_2_wrt_1    |-> R,
      translations_2_wrt_1 |-> [x |-> -(R * t.x), y |-> -(R * t.y), z |-> -t.z],
      intrinsics           |-> K ]

Flat(depth) == [p \in Square(FlowSize) |-> depth]

Checkerboard == [p \in Square(FlowSize) |-> 1 + ((p[1] + p[2]) % 2)]

\* scaled depth maps of the two views of the small images
FlowDepths == { <<Flat(1), Checkerboard>>, <<Checkerboard, Flat(2)>>, <<Flat(2), Flat(1)>> }

FlowTranslations == [x : {-1, 0, 1}, y : {0, 1}, z : {0, 1}]

FlowIntrinsics == [fx |-> 2, fy |-> 2, cx |-> 1, cy |-> 1]

\* the end-to-end scenario: a 100 x 100 image, fx = fy = 100, cx = cy = 50,
\* no rotation, t = (1, 0, 0), depth 10 everywhere, boundary all ones
EndToEnd ==
    FlowPair(Square(100), [p \in Square(100) |-> 10], [p \in Square(100) |-> 10],
             [p \in Square(100) |-> 1], 1, [x |-> 1, y |-> 0, z |-> 0],
             [fx |-> 100, fy |-> 100, cx |-> 50, cy |-> 50])

InitFlow ==
    /\ Process("train", Args(FALSE, 0, 1), FALSE, Missing, FALSE)
    /\ pc = "flow"
    /\ \/ \E d \in FlowDepths, R \in Rotations, t \in FlowTranslations :
             \E b \in [Square(FlowSize) -> {0, 1}] :
                probe = [in   |-> FlowPair(Square(FlowSize), d[1], d[2], b, R, t, FlowIntrinsics),
                         done |-> FALSE, out_1 |-> <<>>, out_2 |-> <<>>]
       \/ probe = [in |-> EndToEnd, done |-> FALSE, out_1 |-> <<>>, out_2 |-> <<>>]

\* train.py 236-247: both flows of one frame pair, masked
FlowBoth ==
    /\ pc = "flow" /\ ~probe.done
    /\ probe' = [probe EXCEPT !.done = TRUE,
                              !.out_1 = flows_from_depth_1(probe.in),
                              !.out_2 = flows_from_depth_2(probe.in)]
    /\ UNCHANGED trainVars

NextFlow == FlowBoth

SpecFlow == InitFlow /\ [][NextFlow]_vars

NoFlow == [u |-> Fin(RInt(0)), v |-> Fin(RInt(0))]

Positive(depth) == \A p \in DOMAIN depth : depth[p] > 0

NoMotion(R, t) == R = 1 /\ t.x = 0 /\ t.y = 0 /\ t.z = 0

\* C11: with depth > 0 everywhere, identity rotation and zero translation the
\* flow from depth is exactly zero at every pixel inside the boundary mask,
\* in either direction.
C11_NoMotionNoFlow ==
    (pc = "flow" /\ probe.done) =>
        LET in == probe.in
        IN  /\ (Positive(in.scaled_depth_maps_1)
                  /\ NoMotion(in.rotations_1_wrt_2, in.translations_1_wrt_2))
               => \A p \in DOMAIN in.boundaries :
                     in.boundaries[p] = 1 => probe.out_1[p] = NoFlow
            /\ (Positive(in.scaled_depth_maps_2)
                  /\ NoMotion(in.rotations_2_wrt_1, in.translations_2_wrt_1))
               => \A p \in DOMAIN in.boundaries :
                     in.boundaries[p] = 1 => probe.out_2[p] = NoFlow

\* a checkerboard depth map, no motion, and pixels inside the boundary away
\* from the principal point
C11_Witness ==
    /\ pc = "flow" /\ probe.done
    /\ NoMotion(probe.in.rotations_1_wrt_2, probe.in.translations_1_wrt_2)
    /\ \E p, q \in DOMAIN probe.in.boundaries :
          /\ probe.in.scaled_depth_maps_1[p] # probe.in.scaled_depth_maps_1[q]
          /\ probe.in.boundaries[p] = 1 /\ probe.in.boundaries[q] = 1
          /\ p[1] # probe.in.intrinsics.cx
          /\ probe.out_1[p] = NoFlow /\ probe.out_1[q] = NoFlow

\* C12: in the end-to-end scenario the flow is -fx * tx / depth = -10 pixels
\* along u and 0 along v at every pixel.
C12_EndToEndShift ==
    (pc = "flow" /\ probe.done /\ probe.in = EndToEnd) =>
        \A p \in DOMAIN probe.out_1 :
            probe.out_1[p] = [u |-> Fin(RInt(-10)), v |-> Fin(RInt(0))]

---------------------------------------------------------------------------
(* The training loop one statement at a time.  probe holds the locals of   *)
(* the loop body: the statement to run next (at), the batch drawn (kind),   *)
(* the gradient on the weights (grad) and the calls made so far (events).   *)

\* the body with the gradient never clipped nor zeroed after backward()
next_statement_after_backward(at, l) ==
    CASE at = "batch_step"      -> "forward"
      [] at = "forward"         -> "loss"
      [] at = "loss"            -> "zero_grad"
      [] at = "zero_grad"       -> "backward"
      [] at = "backward"        -> "step"
      [] at = "zero_grad_again" -> "step"
      [] at = "clip_grad_norm_" -> "step"
      [] at = "step"            -> "tail"
      [] at = "tail"            -> "batch_step"

\* train.py 203-300: the statement that follows statement `at` when the
\* batch's loss is l
next_statement(at, l) ==
    CASE at = "batch_step"      -> "forward"
      [] at = "forward"         -> "loss"
      [] at = "loss"            -> "zero_grad"
      [] at = "zero_grad"       -> "backward"
      [] at = "backward"        -> IF non_finite(l) THEN "zero_grad_again"
                                   ELSE "clip_grad_norm_"
      [] at = "zero_grad_again" -> "step"
      [] at = "clip_grad_norm_" -> "step"
      [] at = "step"            -> "tail"
      [] at = "tail"            -> "batch_step"

InBody(at) == program = "train" /\ pc = "train_loop" /\ batch < NumTrain /\ probe.at = at

\* the locals after the statement at probe.at has made call `call`
Called(call, kind, grad, l) ==
    probe' = [ at     |-> next_statement(probe.at, l),
               kind   |-> kind,
               grad   |-> grad,
               events |-> Append(probe.events, [batch |-> batch, call |-> call]) ]

\* train.py 197-203: the batch is drawn and the scheduler stepped
StatementBatchStep ==
    /\ InBody("batch_step")
    /\ lr' = get_lr(args, batch_iteration(step, batch))
    /\ \E kind \in BatchKinds : Called("batch_step", kind, probe.grad, loss)
    /\ UNCHANGED <<program, args, set_to_none, disk, trained_model_path, pc, epoch,
                   epoch_iter, step, flag, batch, depth_consistency_weight, loss, means,
                   param, optimizer, processed, trace, rtrace, resumed, keep_history>>

\* train.py 227-228
StatementForward ==
    /\ InBody("forward")
    /\ Called("forward", probe.kind, probe.grad, loss)
    /\ UNCHANGED trainVars

\* train.py 230-264
StatementLoss ==
    /\ InBody("loss")
    /\ loss' = total_loss(args, depth_consistency_weight, Data(probe.kind, batch))
    /\ Called("loss", probe.kind, probe.grad, loss')
    /\ UNCHANGED <<program, args, set_to_none, disk, trained_model_path, pc, epoch,
                   epoch_iter, step, flag, batch, depth_consistency_weight, lr, means,
                   param, optimizer, processed, trace, rtrace, resumed, keep_history>>

\* train.py 267, or 273-274
StatementZeroGrad ==
    /\ InBody("zero_grad")
    /\ flag' = next_flag(loss, flag)
    /\ Called("zero_grad", probe.kind, zero_grad(set_to_none), loss)
    /\ UNCHANGED <<program, args, set_to_none, disk, trained_model_path, pc, epoch,
                   epoch_iter, step, batch, depth_consistency_weight, lr, loss, means,
                   param, optimizer, processed, trace, rtrace, resumed, keep_history>>

\* train.py 268, or 275
StatementBackward ==
    /\ InBody("backward")
    /\ Called("backward", probe.kind, <<Data(probe.kind, batch).grad>>, loss)
    /\ UNCHANGED trainVars

\* train.py 269
StatementZeroGradAgain ==
    /\ InBody("zero_grad_again")
    /\ Called("zero_grad", probe.kind, zero_grad(set_to_none), loss)
    /\ UNCHANGED trainVars

\* train.py 277
StatementClip ==
    /\ InBody("clip_grad_norm_")
    /\ Called("clip_grad_norm_", probe.kind, clip_grad_norm_(probe.grad), loss)
    /\ UNCHANGED trainVars

\* train.py 270, or 278
StatementStep ==
    /\ InBody("step")
    /\ LET upd == optimizer_step(optimizer, param, probe.grad)
       IN  param' = upd.param /\ optimizer' = upd.optimizer
    /\ Called("step", probe.kind, probe.grad, loss)
    /\ UNCHANGED <<program, args, set_to_none, disk, trained_model_path, pc, epoch,
                   epoch_iter, step, flag, batch, depth_consistency_weight, lr, loss,
                   means, processed, trace, rtrace, resumed, keep_history>>

\* train.py 271, or 279-345: `continue`, or the running means and step += 1
StatementTail ==
    /\ InBody("tail")
    /\ LET d == Data(probe.kind, batch)
       IN  means' = IF non_finite(loss) THEN means
                    ELSE update_means(means, batch = 0 \/ flag = 1, batch, loss,
                                      depth_consistency_loss(depth_consistency_weight, d),
                                      sparse_flow_loss(args, d))
    /\ step' = next_step(loss, step)
    /\ batch' = batch + 1
    /\ processed' = processed + 1
    /\ probe' = [probe EXCEPT !.at = next_statement("tail", loss)]
    /\ UNCHANGED <<program, args, set_to_none, disk, trained_model_path, pc, epoch,
                   epoch_iter, flag, depth_consistency_weight, lr, loss, param, optimizer,
                   trace, rtrace, resumed, keep_history>>

\* train.py 230: depth_scaling_layer raises inside the body
StatementScaleFails == InBody("loss") /\ TrainScaleFails

NoLocals == [at |-> "batch_step", kind |-> "finite", grad |-> <<>>, events |-> <<>>]

\* a fresh run of one epoch (--number_epoch 0)
InitOrder ==
    /\ \E none \in BOOLEAN, v \in ValidationIntervals :
          Process("train", Args(FALSE, 0, v), none, Missing, FALSE)
    /\ pc = "load"
    /\ probe = NoLocals

NextOrder ==
    \/ LoadCheckpoint
    \/ EpochLoop
    \/ StatementBatchStep
    \/ StatementForward
    \/ StatementLoss
    \/ StatementZeroGrad
    \/ StatementBackward
    \/ StatementZeroGradAgain
    \/ StatementClip
    \/ StatementStep
    \/ StatementTail
    \/ StatementScaleFails
    \/ ValidationGate
    \/ \E kind \in BatchKinds : ValBatch(kind)
    \/ ValScaleFails
    \/ SaveModel

SpecOrder == InitOrder /\ [][NextOrder]_vars

\* the calls batch b has made, in order
Calls(b) ==
    LET es == SelectSeq(probe.events, LAMBDA e : e.batch = b)
    IN  [i \in 1..Len(es) |-> es[i].call]

\* a training batch has just run to its end
BatchEnded == program = "train" /\ pc = "train_loop" /\ probe.at = "batch_step" /\ batch > 0

\* no call of a batch comes before a call of an earlier batch
Sequential ==
    \A i, j \in 1..Len(probe.events) :
        i < j => probe.events[i].batch <= probe.events[j].batch

\* C16 as stated: every batch makes the calls scheduler step, forward, loss,
\* gradient zeroing, backward, (finite loss only) clipping, optimizer step in
\* this order, each exactly once, and batches do not overlap.
C16_EachCallOnce ==
    /\ Sequential
    /\ BatchEnded =>
          Calls(batch - 1) =
              <<"batch_step", "forward", "loss", "zero_grad", "backward">>
                  \o (IF non_finite(loss) THEN <<>> ELSE <<"clip_grad_norm_">>)
                  \o <<"step">>

\* C16 amended: a batch with a finite loss makes the calls scheduler step,
\* forward, loss, gradient zeroing, backward, clipping, optimizer step, each
\* once; a batch with a non-finite loss zeroes the gradients a second time
\* after backward, in place of the clipping; batches do not overlap.
C16_CallsInOrder ==
    /\ Sequential
    /\ BatchEnded =>
          Calls(batch - 1) =
              <<"batch_step", "forward", "loss", "zero_grad", "backward">>
                  \o (IF non_finite(loss) THEN <<"zero_grad">> ELSE <<"clip_grad_norm_">>)
                  \o <<"step">>

\* a finite batch followed by a non-finite one
C16_Witness ==
    /\ BatchEnded /\ batch = NumTrain /\ non_finite(loss) /\ flag > 0
    /\ Len(probe.events) = 7 * NumTrain

=============================================================================
